---- MODULE Spec2Model ----
(***************************************************************************)
(* Model of the competitive-intelligence backend:                          *)
(*   - the LangGraph workflow of CompetitiveIntelligenceAgent              *)
(*     (agents/competitive_intelligence_agent.py) with the collaborators   *)
(*     it calls (NewsFetcher, SignalDetector, SimpleSupabase);             *)
(*   - the ResultDeduplicator (services/deduplication.py);                 *)
(*   - the analysis tools (agents/tools/signal_analysis_tool.py) and the   *)
(*     article loop of run_demo (simple_demo_runner.py).                   *)
(*                                                                         *)
(* The workflow state is the dict threaded through the nodes; it is the    *)
(* record `state`.  `node` is the node the graph executes next.  The       *)
(* `progress` text and `days_back` are read by no branch and are left out. *)
(* The remaining variables observe what the stages did (which companies    *)
(* were fetched, which rows the store holds, ...).  `raw_articles` counts   *)
(* the documents the source adapters returned to the fetch stage, `dd` is  *)
(* a call of the deduplicator, `tool` a call of an analysis tool and `api`  *)
(* the job store of the HTTP API with its background tasks.                *)
(***************************************************************************)
EXTENDS Integers, Sequences, FiniteSets, TLC

VARIABLES state, node, fetch_log, store_log, db_rows, save_calls,
          handler_ran, failures, last_analysis, dd, raw_articles, tool, api

vars == <<state, node, fetch_log, store_log, db_rows, save_calls,
          handler_ran, failures, last_analysis, dd, raw_articles, tool, api>>

obs == <<fetch_log, store_log, db_rows, save_calls, handler_ran, failures,
         last_analysis>>

(***************************************************************************)
(* Bounds of the model                                                     *)
(***************************************************************************)
MaxCompanies == 3

MaxStoreCompanies == 2

MaxSignals == 2

(***************************************************************************)
(* Program constants                                                       *)
(***************************************************************************)
ArticleCap == 10

ExtractParams == 3

AnalyzerCallArgs == 2

Names == {"Acme", "Beta"}

None == "None"

Range(s) == {s[i] : i \in 1..Len(s)}

IsPrefix(s, t) == Len(s) <= Len(t) /\ \A i \in 1..Len(s) : s[i] = t[i]

RECURSIVE SeqsUpTo(_, _)
SeqsUpTo(S, n) ==
    IF n = 0 THEN {<<>>}
    ELSE LET shorter == SeqsUpTo(S, n - 1)
         IN  shorter \cup {Append(s, x) : s \in {t \in shorter : Len(t) = n - 1}, x \in S}

CompanyLists == SeqsUpTo(Names, MaxCompanies) \ {<<>>}

(***************************************************************************)
(* Source adapters and the aggregator (services/news_fetcher.py)           *)
(* An article is represented by its title key (title[:50].lower()).        *)
(***************************************************************************)
GoogleBatches == {<<>>, <<1, 1>>, [i \in 1..(ArticleCap + 1) |-> i]}

\* GoogleNewsSource.fetch: the whole body runs in a try block; on failure it
\* logs and returns [].
GoogleOutcomes == {[failed |-> TRUE, items |-> <<>>]}
                  \cup {[failed |-> FALSE, items |-> b] : b \in GoogleBatches}

GoogleNewsSource_fetch(g) == IF g.failed THEN <<>> ELSE g.items

\* SECFilingsSource.fetch has no try block: it returns [] when there is no CIK
\* or no filing in the window, and an exception of the filings call or of the
\* Result constructor leaves the adapter.
SecOutcomes == {[raised |-> FALSE, items |-> <<>>], [raised |-> TRUE, items |-> <<>>]}

RECURSIVE deduplicate_articles(_)
deduplicate_articles(articles) ==
    IF articles = <<>> THEN <<>>
    ELSE LET n     == Len(articles)
             front == deduplicate_articles(SubSeq(articles, 1, n - 1))
         IN  IF articles[n] \in Range(SubSeq(articles, 1, n - 1))
             THEN front
             ELSE Append(front, articles[n])

fetch_multiple_sources(g, sec) ==
    IF sec.raised
    THEN [raised |-> TRUE, articles |-> <<>>, raw |-> 0]
    ELSE [raised |-> FALSE,
          articles |-> deduplicate_articles(GoogleNewsSource_fetch(g) \o sec.items),
          raw |-> Len(GoogleNewsSource_fetch(g)) + Len(sec.items)]

(***************************************************************************)
(* The workflow state and its nodes                                        *)
(***************************************************************************)
NoArticles == [c \in {} |-> <<>>]

EmptyResults == [kind |-> "none"]

initial_state(companies) ==
    [companies         |-> companies,
     current_company   |-> None,
     fetched_articles  |-> NoArticles,
     extracted_signals |-> <<>>,
     total_articles    |-> 0,
     total_signals     |-> 0,
     errors            |-> <<>>,
     status            |-> "pending",
     results           |-> EmptyResults]

index(companies, c) == CHOOSE i \in 1..Len(companies) :
                           /\ companies[i] = c
                           /\ \A j \in 1..(i - 1) : companies[j] # c

\* `not current_company` holds for None (company names are non-empty).
planner_node(st) ==
    IF st.current_company = None /\ st.companies # <<>>
    THEN [st EXCEPT !.current_company = st.companies[1],
                    !.status = "fetching"]
    ELSE IF st.current_company \in DOMAIN st.fetched_articles
    THEN LET current_idx == index(st.companies, st.current_company)
         IN  IF current_idx + 1 <= Len(st.companies)
             THEN [st EXCEPT !.current_company = st.companies[current_idx + 1],
                             !.status = "fetching"]
             ELSE [st EXCEPT !.status = "complete"]
    ELSE st

should_continue_planning(st) ==
    IF st.status = "error" THEN "error_handler"
    ELSE IF st.status = "complete" THEN "END"
    ELSE "news_fetcher"

\* Variant: an aggregator exception is swallowed and treated as no articles.
news_fetcher_node_swallow(st, fetched) ==
    [st EXCEPT
       !.fetched_articles =
           [c \in DOMAIN st.fetched_articles \cup {st.current_company} |->
               IF c = st.current_company THEN fetched.articles
               ELSE st.fetched_articles[c]],
       !.total_articles = @ + Len(fetched.articles),
       !.status = "analyzing"]

news_fetcher_node(st, fetched) ==
    IF fetched.raised
    THEN [st EXCEPT !.errors = Append(@, <<"fetch", st.current_company>>),
                    !.status = "error"]
    ELSE [st EXCEPT
            !.fetched_articles =
                [c \in DOMAIN st.fetched_articles \cup {st.current_company} |->
                    IF c = st.current_company THEN fetched.articles
                    ELSE st.fetched_articles[c]],
            !.total_articles = @ + Len(fetched.articles),
            !.status = "analyzing"]

should_continue_after_fetch(st) ==
    IF st.status = "error" THEN "error_handler"
    ELSE IF st.status = "analyzing" THEN "signal_analyzer"
    ELSE "planner"

(***************************************************************************)
(* SignalDetector.extract and the analyze stage                            *)
(***************************************************************************)
SignalTypes == {"funding", "leadership"}

Impacts == {"high", "low"}

Confidences == {"low", "medium", "high"}

ClassifierOutcomes ==
    {[raised |-> TRUE, type |-> "none", impact |-> "low", confidence |-> "low"],
     [raised |-> FALSE, type |-> "none", impact |-> "low", confidence |-> "low"]}
    \cup {[raised |-> FALSE, type |-> t, impact |-> i, confidence |-> c] :
             t \in SignalTypes, i \in Impacts, c \in Confidences}

NoSignal == [kind |-> "None", type |-> "none", impact |-> "low", confidence |-> "low"]

\* extract(company_name, text, source_type) has three required parameters; a
\* call that passes another number of arguments raises TypeError before the
\* body runs.  Inside, a classifier exception and the type none both give None.
\* Variant: the classifier's exception leaves extract.
extract_propagate(nargs, cls) ==
    IF nargs # ExtractParams
    THEN [kind |-> "TypeError", type |-> "none", impact |-> "low", confidence |-> "low"]
    ELSE IF cls.raised
    THEN [kind |-> "Raised", type |-> "none", impact |-> "low", confidence |-> "low"]
    ELSE IF cls.type = "none" THEN NoSignal
    ELSE [kind |-> "Signal", type |-> cls.type, impact |-> cls.impact,
          confidence |-> cls.confidence]

extract(nargs, cls) ==
    IF nargs # ExtractParams
    THEN [kind |-> "TypeError", type |-> "none", impact |-> "low", confidence |-> "low"]
    ELSE IF cls.raised THEN NoSignal
    ELSE IF cls.type = "none" THEN NoSignal
    ELSE [kind |-> "Signal", type |-> cls.type, impact |-> cls.impact,
          confidence |-> cls.confidence]

\* The keys of a record built by signal.dict() plus the metadata update.
SignalKeys == {"type", "impact", "title", "action", "amount", "person",
               "confidence", "company_name", "source_url", "detected_at"}

signal_dict(signal, company, article) ==
    [type |-> signal.type, impact |-> signal.impact, company_name |-> company,
     source_url |-> article, stored |-> FALSE]

Min(a, b) == IF a <= b THEN a ELSE b

\* Variant: the first failing article ends the loop.
RECURSIVE analyze_loop_abort(_, _, _, _, _)
analyze_loop_abort(acc, company, articles, cls, i) ==
    IF i > Len(articles) THEN acc
    ELSE LET signal == extract(AnalyzerCallArgs, cls[i])
             called == [acc EXCEPT !.calls = @ + 1]
         IN  IF signal.kind = "TypeError"
             THEN [called EXCEPT !.errors = Append(@, <<"article", company>>),
                                 !.failed = @ + 1]
             ELSE IF signal.kind = "Signal"
             THEN analyze_loop_abort(
                      [called EXCEPT
                          !.signals = Append(@, signal_dict(signal, company, articles[i])),
                          !.found = @ + 1],
                      company, articles, cls, i + 1)
             ELSE analyze_loop_abort(called, company, articles, cls, i + 1)

RECURSIVE analyze_loop(_, _, _, _, _)
analyze_loop(acc, company, articles, cls, i) ==
    IF i > Len(articles) THEN acc
    ELSE LET signal == extract(AnalyzerCallArgs, cls[i])
             called == [acc EXCEPT !.calls = @ + 1]
             next   == IF signal.kind = "TypeError"
                       THEN [called EXCEPT !.errors = Append(@, <<"article", company>>),
                                           !.failed = @ + 1]
                       ELSE IF signal.kind = "Signal"
                       THEN [called EXCEPT
                               !.signals = Append(@, signal_dict(signal, company, articles[i])),
                               !.found = @ + 1]
                       ELSE called
         IN  analyze_loop(next, company, articles, cls, i + 1)

articles_of(st) ==
    IF st.current_company \in DOMAIN st.fetched_articles
    THEN st.fetched_articles[st.current_company]
    ELSE <<>>

capped_articles(st) ==
    SubSeq(articles_of(st), 1, Min(Len(articles_of(st)), ArticleCap))

\* The outer except of the stage (status error) guards statements that do
\* not raise; every call that can raise sits in the per-article try.
analyze_acc(st, cls) ==
    analyze_loop([signals |-> st.extracted_signals, errors |-> st.errors,
                  found |-> 0, calls |-> 0, failed |-> 0],
                 st.current_company, capped_articles(st), cls, 1)

signal_analyzer_node(st, cls) ==
    LET acc == analyze_acc(st, cls)
    IN  [st EXCEPT !.extracted_signals = acc.signals,
                   !.errors = acc.errors,
                   !.total_signals = @ + acc.found,
                   !.status = "storing"]

should_continue_after_analysis(st) ==
    IF st.status = "error" THEN "error_handler"
    ELSE IF st.status = "storing" THEN "data_storage"
    ELSE "planner"

\* The classifier is consulted only by a call that binds its arguments.
ExtractDraws(k) ==
    IF AnalyzerCallArgs = ExtractParams
    THEN [1..k -> ClassifierOutcomes]
    ELSE {[i \in 1..k |-> [raised |-> FALSE, type |-> "none", impact |-> "low",
                            confidence |-> "low"]]}

(***************************************************************************)
(* SimpleSupabase.save_signal and the store stage                          *)
(***************************************************************************)
\* Outcome of the insert: a row comes back, no data comes back, or it raises.
SaveOutcomes == {"row", "empty", "raise"}

\* save_signal catches every exception and returns {}; TRUE is a non-empty dict.
save_signal(outcome) == outcome = "row"

\* Variant: the stored flag is not consulted.
to_save_all(st) ==
    {i \in 1..Len(st.extracted_signals) :
        st.extracted_signals[i].company_name = st.current_company}

\* Indices of the signals the store stage passes to save_signal.
to_save(st) ==
    {i \in 1..Len(st.extracted_signals) :
        /\ st.extracted_signals[i].company_name = st.current_company
        /\ ~st.extracted_signals[i].stored}

\* save_signal never raises, so the except branch of the stage (append to
\* errors, status error) is not reached by any save outcome.
data_storage_node(st, saves) ==
    [st EXCEPT
       !.extracted_signals =
           [i \in 1..Len(st.extracted_signals) |->
               IF i \in to_save(st) /\ save_signal(saves[i])
               THEN [st.extracted_signals[i] EXCEPT !.stored = TRUE]
               ELSE st.extracted_signals[i]],
       !.status = "fetching"]

\* Variant: the edge after the store stage never chooses the summarizer and
\* leaves the end of the list to the planner.
should_continue_after_storage_planner(st) ==
    IF st.status = "error" THEN "error_handler"
    ELSE "planner"

should_continue_after_storage(st) ==
    IF st.status = "error" THEN "error_handler"
    ELSE IF st.current_company # None /\ st.companies # <<>>
            /\ index(st.companies, st.current_company) + 1 > Len(st.companies)
    THEN "summarizer"
    ELSE "planner"

(***************************************************************************)
(* The summarize stage and the error handler                               *)
(***************************************************************************)
\* Indices of s in increasing order, as a sequence.
RECURSIVE Select(_, _, _)
Select(s, P(_), i) ==
    IF i > Len(s) THEN <<>>
    ELSE IF P(s[i]) THEN <<s[i]>> \o Select(s, P, i + 1)
    ELSE Select(s, P, i + 1)

IsHigh(s) == s.impact = "high"

\* signal.get("signal_type", "unknown")
get_signal_type(s) == IF "signal_type" \in SignalKeys THEN s.type ELSE "unknown"

\* The insights prompt reads sig['signal_type'] of every high-impact signal,
\* before the narrative generator is invoked.
prompt_key_error(st) ==
    /\ \E i \in 1..Len(st.extracted_signals) : IsHigh(st.extracted_signals[i])
    /\ "signal_type" \notin SignalKeys

\* s["signal_type"] raises KeyError on a record without that key: in the
\* prompt for a high-impact signal, in the results object for any signal.
summary_key_error(st) ==
    st.extracted_signals # <<>> /\ "signal_type" \notin SignalKeys

summary_results(st, llm_ok) ==
    LET sigs      == st.extracted_signals
        types     == {get_signal_type(sigs[i]) : i \in 1..Len(sigs)}
        comps     == {sigs[i].company_name : i \in 1..Len(sigs)}
        high      == Select(sigs, IsHigh, 1)
    IN  [kind                   |-> "summary",
         total_companies        |-> Len(st.companies),
         total_articles         |-> st.total_articles,
         total_signals          |-> st.total_signals,
         companies_with_signals |-> Cardinality(comps),
         processing_errors      |-> Len(st.errors),
         signals_by_type        |->
             [t \in types |-> Cardinality({i \in 1..Len(sigs) : get_signal_type(sigs[i]) = t})],
         signals_by_company     |->
             [c \in comps |-> Cardinality({i \in 1..Len(sigs) : sigs[i].company_name = c})],
         ai_insights            |-> IF llm_ok THEN "insights" ELSE "Unable to generate AI insights",
         high_impact_signals    |-> SubSeq(high, 1, Min(Len(high), 10)),
         errors                 |-> st.errors]

\* Variant: a narrative failure is treated like any other exception of the
\* stage.
summarizer_node_fatal(st, llm_ok) ==
    IF summary_key_error(st) \/ ~llm_ok
    THEN [st EXCEPT !.errors = Append(@, <<"summary", "Exception">>),
                    !.status = "error"]
    ELSE [st EXCEPT !.results = summary_results(st, llm_ok),
                    !.status = "complete"]

\* A narrative failure is caught by the inner try (placeholder text, no
\* error entry); the KeyError is caught by the outer except.
summarizer_node(st, llm_ok) ==
    IF summary_key_error(st)
    THEN [st EXCEPT !.errors = Append(@, <<"summary", "KeyError">>),
                    !.status = "error"]
    ELSE [st EXCEPT !.results = summary_results(st, llm_ok),
                    !.status = "complete"]

error_handler_node(st) ==
    [st EXCEPT
       !.status = "error",
       !.results = [kind               |-> "error_summary",
                    error_count        |-> Len(st.errors),
                    errors             |-> st.errors,
                    total_articles     |-> st.total_articles,
                    total_signals      |-> st.total_signals,
                    companies_processed |-> Cardinality(DOMAIN st.fetched_articles)]]

(***************************************************************************)
(* The graph: one action per node, followed by its conditional edge        *)
(***************************************************************************)
NoAnalysis == [company |-> None, articles |-> 0, calls |-> 0, failed |-> 0,
               errors_before |-> 0, signals_before |-> 0]

DedupIdle == [phase |-> "idle"]

ToolIdle == [phase |-> "idle"]

ApiIdle == [phase |-> "idle"]

Planner ==
    /\ node = "planner"
    /\ state' = planner_node(state)
    /\ node' = should_continue_planning(state')
    /\ UNCHANGED <<obs, dd, raw_articles, tool, api>>

\* The guard bounds the runs of the model: at most one fetch more than the
\* list has positions.
NewsFetcher ==
    /\ node = "news_fetcher"
    /\ Len(fetch_log) <= Len(state.companies)
    /\ \E g \in GoogleOutcomes, sec \in SecOutcomes :
          /\ state' = news_fetcher_node(state, fetch_multiple_sources(g, sec))
          /\ raw_articles' = raw_articles + fetch_multiple_sources(g, sec).raw
          /\ failures' = failures
                           \cup (IF g.failed THEN {"adapter"} ELSE {})
                           \cup (IF sec.raised THEN {"aggregator"} ELSE {})
    /\ fetch_log' = Append(fetch_log, state.current_company)
    /\ node' = should_continue_after_fetch(state')
    /\ UNCHANGED <<store_log, db_rows, save_calls, handler_ran, last_analysis, dd, tool,
                   api>>

SignalAnalyzer ==
    /\ node = "signal_analyzer"
    /\ \E cls \in ExtractDraws(Len(capped_articles(state))) :
          /\ state' = signal_analyzer_node(state, cls)
          /\ last_analysis' =
                 [company        |-> state.current_company,
                  articles       |-> Len(articles_of(state)),
                  calls          |-> analyze_acc(state, cls).calls,
                  failed         |-> analyze_acc(state, cls).failed,
                  errors_before  |-> Len(state.errors),
                  signals_before |-> Len(state.extracted_signals)]
          /\ failures' = failures
                 \cup (IF analyze_acc(state, cls).failed > 0 THEN {"extract_call"} ELSE {})
                 \cup (IF AnalyzerCallArgs = ExtractParams
                          /\ \E i \in DOMAIN cls : cls[i].raised
                       THEN {"classifier"} ELSE {})
    /\ node' = should_continue_after_analysis(state')
    /\ UNCHANGED <<fetch_log, store_log, db_rows, save_calls, handler_ran, dd,
                   raw_articles, tool, api>>

RECURSIVE SetToSeq(_)
SetToSeq(S) ==
    IF S = {} THEN <<>>
    ELSE LET m == CHOOSE x \in S : \A y \in S : x <= y
         IN  <<m>> \o SetToSeq(S \ {m})

DataStorage ==
    /\ node = "data_storage"
    /\ \E saves \in [to_save(state) -> SaveOutcomes] :
          /\ state' = data_storage_node(state, saves)
          /\ save_calls' = save_calls \cup
                 {[signal |-> i, stored |-> state.extracted_signals[i].stored] :
                     i \in to_save(state)}
          /\ db_rows' = db_rows \o
                 SetToSeq({i \in to_save(state) : save_signal(saves[i])})
          /\ failures' = failures
                 \cup (IF \E i \in to_save(state) : ~save_signal(saves[i])
                       THEN {"save"} ELSE {})
    /\ store_log' = Append(store_log, state.current_company)
    /\ node' = should_continue_after_storage(state')
    /\ UNCHANGED <<fetch_log, handler_ran, last_analysis, dd, raw_articles, tool, api>>

Summarizer ==
    /\ node = "summarizer"
    /\ \E llm_ok \in BOOLEAN :
          /\ state' = summarizer_node(state, llm_ok)
          /\ failures' = failures
                 \cup (IF ~llm_ok /\ ~prompt_key_error(state) THEN {"narrative"} ELSE {})
    /\ node' = "END"
    /\ UNCHANGED <<fetch_log, store_log, db_rows, save_calls, handler_ran,
                   last_analysis, dd, raw_articles, tool, api>>

ErrorHandler ==
    /\ node = "error_handler"
    /\ state' = error_handler_node(state)
    /\ handler_ran' = TRUE
    /\ node' = "END"
    /\ UNCHANGED <<fetch_log, store_log, db_rows, save_calls, failures,
                   last_analysis, dd, raw_articles, tool, api>>

\* run_analysis: the initial state, and START -> planner.
Init ==
    /\ \E companies \in CompanyLists : state = initial_state(companies)
    /\ node = "planner"
    /\ fetch_log = <<>>
    /\ store_log = <<>>
    /\ db_rows = <<>>
    /\ save_calls = {}
    /\ handler_ran = FALSE
    /\ failures = {}
    /\ last_analysis = NoAnalysis
    /\ dd = DedupIdle
    /\ raw_articles = 0
    /\ tool = ToolIdle
    /\ api = ApiIdle

Next ==
    \/ Planner
    \/ NewsFetcher
    \/ SignalAnalyzer
    \/ DataStorage
    \/ Summarizer
    \/ ErrorHandler

Spec == Init /\ [][Next]_vars

(***************************************************************************)
(* The workflow entered at the store stage.  In a run started by           *)
(* run_analysis the analyze stage never yields a signal (its call of       *)
(* extract passes AnalyzerCallArgs arguments), so the store and summarize  *)
(* stages only ever see an empty signal list.  StoreSpec hands the store   *)
(* stage the state the analyze stage builds for the first company when the *)
(* extractor returns signals, and then runs the same graph.                *)
(***************************************************************************)
SignalDraws ==
    SeqsUpTo({<<"funding", "high">>, <<"leadership", "low">>}, MaxSignals) \ {<<>>}

analyzed_state(companies, draws) ==
    [companies         |-> companies,
     current_company   |-> companies[1],
     fetched_articles  |-> [c \in {companies[1]} |-> [i \in 1..Len(draws) |-> i]],
     extracted_signals |->
         [i \in 1..Len(draws) |->
             signal_dict([type |-> draws[i][1], impact |-> draws[i][2]], companies[1], i)],
     total_articles    |-> Len(draws),
     total_signals     |-> Len(draws),
     errors            |-> <<>>,
     status            |-> "storing",
     results           |-> EmptyResults]

StoreCompanyLists == SeqsUpTo(Names, MaxStoreCompanies) \ {<<>>}

StoreInit ==
    /\ \E companies \in StoreCompanyLists, draws \in SignalDraws :
          /\ state = analyzed_state(companies, draws)
          /\ fetch_log = <<companies[1]>>
          /\ raw_articles = Len(draws)
          /\ last_analysis = [company |-> companies[1], articles |-> Len(draws),
                              calls |-> Len(draws), failed |-> 0,
                              errors_before |-> 0, signals_before |-> 0]
    /\ node = "data_storage"
    /\ store_log = <<>>
    /\ db_rows = <<>>
    /\ save_calls = {}
    /\ handler_ran = FALSE
    /\ failures = {}
    /\ dd = DedupIdle
    /\ tool = ToolIdle
    /\ api = ApiIdle

StoreSpec == StoreInit /\ [][Next]_vars

(***************************************************************************)
(* ResultDeduplicator (services/deduplication.py)                          *)
(* A result is [title, published_on]: the title is the sequence of its     *)
(* lower-cased words, published_on is in hours.  The other fields of       *)
(* Result only reach the comparison prompt.                                *)
(***************************************************************************)
MaxDocs == 3

ClusterProbe == 3

WindowHours == 72

TitleCut == 50

ConfidenceCut == 6

WordLen(w) == CASE w = "acme" -> 4 [] w = "ceo" -> 3 [] w = "quits" -> 5
                [] w = "today" -> 5 [] w = "the" -> 3 [] OTHER -> 1

common_words == {"the", "a", "an", "and", "or", "but", "in", "on", "at", "to",
                 "for", "of", "with", "by", "is", "are", "was", "were", "will",
                 "would", "could", "should"}

TitlePool == {<<"acme", "ceo">>, <<"the", "ceo", "quits">>, <<"quits", "today">>}

TimePool == {0, 1}

ResultPool == {[title |-> t, published_on |-> h] : t \in TitlePool, h \in TimePool}

Abs(x) == IF x < 0 THEN 0 - x ELSE x

\* Variant: a result published after the other one is never similar to it.
are_potentially_similar_forward(result1, result2) ==
    IF result1.published_on > result2.published_on
          \/ Abs(result1.published_on - result2.published_on) > WindowHours
    THEN FALSE
    ELSE LET title1_words == Range(result1.title) \ common_words
             title2_words == Range(result2.title) \ common_words
         IN  IF title1_words = {} \/ title2_words = {}
             THEN FALSE
             ELSE 5 * Cardinality(title1_words \cap title2_words)
                    > Cardinality(title1_words \cup title2_words)

are_potentially_similar(result1, result2) ==
    IF Abs(result1.published_on - result2.published_on) > WindowHours
    THEN FALSE
    ELSE LET title1_words == Range(result1.title) \ common_words
             title2_words == Range(result2.title) \ common_words
         IN  IF title1_words = {} \/ title2_words = {}
             THEN FALSE
             ELSE 5 * Cardinality(title1_words \cap title2_words)
                    > Cardinality(title1_words \cup title2_words)

\* The words of title.lower()[:50]: a word is <<text, number of characters
\* kept>>, so a word cut by the slice differs from the whole word.
RECURSIVE cut_words(_, _, _)
cut_words(title, i, offset) ==
    IF i > Len(title) \/ offset >= TitleCut THEN {}
    ELSE {<<title[i], Min(WordLen(title[i]), TitleCut - offset)>>}
         \cup cut_words(title, i + 1, offset + WordLen(title[i]) + 1)

simple_title_comparison(result1, result2) ==
    LET words1 == cut_words(result1.title, 1, 0)
        words2 == cut_words(result2.title, 1, 0)
    IN  IF words1 = {} \/ words2 = {}
        THEN FALSE
        ELSE 10 * Cardinality(words1 \cap words2) > 7 * Cardinality(words1 \cup words2)

\* Variant: a comparator that raises counts as "not duplicate".
compare_results_strict(llm, result1, result2) ==
    IF llm.raises
    THEN FALSE
    ELSE llm.is_duplicate[{result1, result2}] /\ llm.confidence >= ConfidenceCut

\* The comparator: llm.raises says that invoke raises; otherwise the answer
\* for a pair of results has is_duplicate = llm.is_duplicate[pair] and
\* confidence = llm.confidence (in tenths).
compare_results(llm, result1, result2) ==
    IF llm.raises
    THEN simple_title_comparison(result1, result2)
    ELSE llm.is_duplicate[{result1, result2}] /\ llm.confidence >= ConfidenceCut

\* Variant: of a duplicate pair the older result is marked.
RECURSIVE direct_loop_keep_newer(_, _, _, _, _)
direct_loop_keep_newer(llm, results, i, j, duplicate_indices) ==
    IF i > Len(results) THEN duplicate_indices
    ELSE IF i \in duplicate_indices
    THEN direct_loop_keep_newer(llm, results, i + 1, i + 2, duplicate_indices)
    ELSE IF j > Len(results)
    THEN direct_loop_keep_newer(llm, results, i + 1, i + 2, duplicate_indices)
    ELSE IF j \in duplicate_indices
    THEN direct_loop_keep_newer(llm, results, i, j + 1, duplicate_indices)
    ELSE IF compare_results(llm, results[i], results[j])
    THEN IF results[i].published_on <= results[j].published_on
         THEN direct_loop_keep_newer(llm, results, i + 1, i + 2, duplicate_indices \cup {i})
         ELSE direct_loop_keep_newer(llm, results, i, j + 1, duplicate_indices \cup {j})
    ELSE direct_loop_keep_newer(llm, results, i, j + 1, duplicate_indices)

\* The loops of _deduplicate_direct_comparison: the set duplicate_indices
\* after the pass that starts at (i, j).
RECURSIVE direct_loop(_, _, _, _, _)
direct_loop(llm, results, i, j, duplicate_indices) ==
    IF i > Len(results) THEN duplicate_indices
    ELSE IF i \in duplicate_indices
    THEN direct_loop(llm, results, i + 1, i + 2, duplicate_indices)
    ELSE IF j > Len(results)
    THEN direct_loop(llm, results, i + 1, i + 2, duplicate_indices)
    ELSE IF j \in duplicate_indices
    THEN direct_loop(llm, results, i, j + 1, duplicate_indices)
    ELSE IF compare_results(llm, results[i], results[j])
    THEN IF results[i].published_on >= results[j].published_on
         THEN direct_loop(llm, results, i + 1, i + 2, duplicate_indices \cup {i})
         ELSE direct_loop(llm, results, i, j + 1, duplicate_indices \cup {j})
    ELSE direct_loop(llm, results, i, j + 1, duplicate_indices)

\* Variant: the inner loop also compares with results already marked.
RECURSIVE direct_calls_no_skip(_, _, _, _, _, _)
direct_calls_no_skip(llm, results, i, j, duplicate_indices, calls) ==
    IF i > Len(results)
    THEN [duplicate_indices |-> duplicate_indices, calls |-> calls]
    ELSE IF i \in duplicate_indices
    THEN direct_calls_no_skip(llm, results, i + 1, i + 2, duplicate_indices, calls)
    ELSE IF j > Len(results)
    THEN direct_calls_no_skip(llm, results, i + 1, i + 2, duplicate_indices, calls)
    ELSE LET called == calls \cup {<<i, j, duplicate_indices>>}
         IN  IF compare_results(llm, results[i], results[j])
             THEN IF results[i].published_on >= results[j].published_on
                  THEN direct_calls_no_skip(llm, results, i + 1, i + 2,
                                duplicate_indices \cup {i}, called)
                  ELSE direct_calls_no_skip(llm, results, i, j + 1,
                                duplicate_indices \cup {j}, called)
             ELSE direct_calls_no_skip(llm, results, i, j + 1, duplicate_indices, called)

\* The loops of _deduplicate_direct_comparison with the calls of
\* _compare_results they make: a call is <<i, j, duplicate_indices at the
\* time of the call>>.
RECURSIVE direct_calls(_, _, _, _, _, _)
direct_calls(llm, results, i, j, duplicate_indices, calls) ==
    IF i > Len(results)
    THEN [duplicate_indices |-> duplicate_indices, calls |-> calls]
    ELSE IF i \in duplicate_indices
    THEN direct_calls(llm, results, i + 1, i + 2, duplicate_indices, calls)
    ELSE IF j > Len(results)
    THEN direct_calls(llm, results, i + 1, i + 2, duplicate_indices, calls)
    ELSE IF j \in duplicate_indices
    THEN direct_calls(llm, results, i, j + 1, duplicate_indices, calls)
    ELSE LET called == calls \cup {<<i, j, duplicate_indices>>}
         IN  IF compare_results(llm, results[i], results[j])
             THEN IF results[i].published_on >= results[j].published_on
                  THEN direct_calls(llm, results, i + 1, i + 2,
                                duplicate_indices \cup {i}, called)
                  ELSE direct_calls(llm, results, i, j + 1,
                                duplicate_indices \cup {j}, called)
             ELSE direct_calls(llm, results, i, j + 1, duplicate_indices, called)

RECURSIVE Keep(_, _, _)
Keep(results, dropped, i) ==
    IF i > Len(results) THEN <<>>
    ELSE IF i \in dropped THEN Keep(results, dropped, i + 1)
    ELSE <<results[i]>> \o Keep(results, dropped, i + 1)

deduplicate_direct_comparison(llm, results) ==
    Keep(results, direct_loop(llm, results, 1, 2, {}), 1)

\* The scan over the existing clusters for one result.  Cluster ids start
\* at 0 and the scan stops on `if assigned_cluster:`, which is false for
\* None and for the id 0.
RECURSIVE scan_clusters(_, _, _, _)
scan_clusters(clusters, result, cid, assigned_cluster) ==
    IF cid >= Len(clusters) THEN assigned_cluster
    ELSE LET members == clusters[cid + 1]
             probe   == SubSeq(members, 1, Min(Len(members), ClusterProbe))
             hit     == \E k \in 1..Len(probe) : are_potentially_similar(result, probe[k])
             now     == IF hit THEN cid ELSE assigned_cluster
         IN  IF now # -1 /\ now # 0
             THEN now
             ELSE scan_clusters(clusters, result, cid + 1, now)

\* Variant: a result that joins a cluster also opens a cluster of its own.
RECURSIVE create_similarity_clusters_both(_, _, _)
create_similarity_clusters_both(results, i, clusters) ==
    IF i > Len(results) THEN clusters
    ELSE LET assigned_cluster == scan_clusters(clusters, results[i], 0, -1)
         IN  IF assigned_cluster # -1
             THEN create_similarity_clusters_both(results, i + 1,
                      Append([clusters EXCEPT ![assigned_cluster + 1] = Append(@, results[i])],
                             <<results[i]>>))
             ELSE create_similarity_clusters_both(results, i + 1,
                      Append(clusters, <<results[i]>>))

\* clusters[cid + 1] is the list of cluster cid; -1 stands for None.
RECURSIVE create_similarity_clusters(_, _, _)
create_similarity_clusters(results, i, clusters) ==
    IF i > Len(results) THEN clusters
    ELSE LET assigned_cluster == scan_clusters(clusters, results[i], 0, -1)
         IN  IF assigned_cluster # -1
             THEN create_similarity_clusters(results, i + 1,
                      [clusters EXCEPT ![assigned_cluster + 1] = Append(@, results[i])])
             ELSE create_similarity_clusters(results, i + 1,
                      Append(clusters, <<results[i]>>))

RECURSIVE unique_of_clusters(_, _, _)
unique_of_clusters(llm, clusters, c) ==
    IF c > Len(clusters) THEN <<>>
    ELSE (IF Len(clusters[c]) = 1
          THEN clusters[c]
          ELSE deduplicate_direct_comparison(llm, clusters[c]))
         \o unique_of_clusters(llm, clusters, c + 1)

deduplicate_with_clustering(llm, results) ==
    unique_of_clusters(llm, create_similarity_clusters(results, 1, <<>>), 1)

deduplicate_results(llm, results) ==
    IF Len(results) <= 1 THEN results
    ELSE deduplicate_with_clustering(llm, results)

\* Inputs of the deduplicator: a list of results and a comparator that
\* answers the same for the same pair of results.
ResultLists == SeqsUpTo(ResultPool, MaxDocs)

\* The pairs of results the comparator can be asked about: two different
\* positions of the list.
PairsOf(results) ==
    {{results[p[1]], results[p[2]]} :
        p \in {q \in (1..Len(results)) \X (1..Len(results)) : q[1] < q[2]}}

Comparators(results) ==
    {[raises |-> TRUE, confidence |-> 0,
      is_duplicate |-> [p \in PairsOf(results) |-> FALSE]],
     [raises |-> FALSE, confidence |-> ConfidenceCut - 1,
      is_duplicate |-> [p \in PairsOf(results) |-> TRUE]]}
    \cup {[raises |-> FALSE, confidence |-> ConfidenceCut, is_duplicate |-> d] :
             d \in [PairsOf(results) -> BOOLEAN]}

DedupInit ==
    /\ \E results \in ResultLists :
          \E llm \in Comparators(results) :
             dd = [phase |-> "input", results |-> results, llm |-> llm,
                   once |-> <<>>, twice |-> <<>>]
    /\ state = initial_state(<<>>)
    /\ node = "idle"
    /\ fetch_log = <<>>
    /\ store_log = <<>>
    /\ db_rows = <<>>
    /\ save_calls = {}
    /\ handler_ran = FALSE
    /\ failures = {}
    /\ last_analysis = NoAnalysis
    /\ raw_articles = 0
    /\ tool = ToolIdle
    /\ api = ApiIdle

Deduplicate ==
    /\ dd.phase = "input"
    /\ dd' = [dd EXCEPT !.phase = "once",
                        !.once = deduplicate_results(dd.llm, dd.results)]
    /\ UNCHANGED <<state, node, obs, raw_articles, tool, api>>

DeduplicateAgain ==
    /\ dd.phase = "once"
    /\ dd' = [dd EXCEPT !.phase = "twice",
                        !.twice = deduplicate_results(dd.llm, dd.once)]
    /\ UNCHANGED <<state, node, obs, raw_articles, tool, api>>

DedupNext == Deduplicate \/ DeduplicateAgain

DedupSpec == DedupInit /\ [][DedupNext]_vars

\* C1: deduplicating the output of deduplicate_results again returns that
\* output unchanged.
C1_Idempotent ==
    dd.phase = "twice" => dd.twice = dd.once

Count(s, x) == Cardinality({i \in 1..Len(s) : s[i] = x})

\* C15: the output of deduplicate_results is no longer than its input and
\* holds every result at most as often as the input does.
C15_OutputWithinInput ==
    dd.phase \in {"once", "twice"} =>
        /\ Len(dd.once) <= Len(dd.results)
        /\ \A r \in Range(dd.once) : Count(dd.once, r) <= Count(dd.results, r)

C15_Witness ==
    /\ dd.phase = "once"
    /\ Len(dd.once) < Len(dd.results)
    /\ \E r \in Range(dd.once) : Count(dd.once, r) = 2

\* s is t with some elements left out.
RECURSIVE IsSubsequence(_, _)
IsSubsequence(s, t) ==
    IF s = <<>> THEN TRUE
    ELSE IF t = <<>> THEN FALSE
    ELSE IF Head(s) = Head(t) THEN IsSubsequence(Tail(s), Tail(t))
    ELSE IsSubsequence(s, Tail(t))

NoPairDuplicate(llm, results) ==
    \A i, j \in 1..Len(results) :
        i < j => ~compare_results(llm, results[i], results[j])

\* C16: the output of deduplicate_results lists the surviving results in
\* the order of the input, and equals the input when no pair of the input is
\* judged duplicate.
C16_OrderPreserved ==
    dd.phase \in {"once", "twice"} =>
        /\ IsSubsequence(dd.once, dd.results)
        /\ NoPairDuplicate(dd.llm, dd.results) => dd.once = dd.results

\* C17: every result the resolution pass eliminates from a cluster was
\* judged duplicate of a result of that cluster published no later than it;
\* of two results judged duplicate exactly the one published later (or, at
\* equal times, one of them) is eliminated.
C17_EarlierSurvives ==
    dd.phase \in {"once", "twice"} =>
        LET clusters == create_similarity_clusters(dd.results, 1, <<>>)
        IN  /\ \A c \in 1..Len(clusters) :
                  LET rs == clusters[c]
                  IN  \A i \in direct_loop(dd.llm, rs, 1, 2, {}) :
                         \E j \in (1..Len(rs)) \ {i} :
                            /\ compare_results(dd.llm, rs[i], rs[j])
                            /\ rs[j].published_on <= rs[i].published_on
            /\ (/\ Len(dd.results) = 2
                /\ are_potentially_similar(dd.results[1], dd.results[2])
                /\ compare_results(dd.llm, dd.results[1], dd.results[2]))
                   => /\ Len(dd.once) = 1
                      /\ dd.once[1] \in Range(dd.results)
                      /\ dd.once[1].published_on =
                             Min(dd.results[1].published_on, dd.results[2].published_on)

C17_Witness ==
    /\ dd.phase = "once"
    /\ ~dd.llm.raises
    /\ Len(dd.results) = 2
    /\ dd.results[1].published_on = 1
    /\ dd.results[2].published_on = 0
    /\ dd.results[1].title = dd.results[2].title
    /\ dd.once = <<dd.results[2]>>

\* The title heuristic as a comparator that never raises.
TitleHeuristic(results) ==
    [raises |-> FALSE, confidence |-> ConfidenceCut,
     is_duplicate |-> [p \in PairsOf(results) |->
                         \E a, b \in p : p = {a, b} /\ simple_title_comparison(a, b)]]

\* C18: with a comparator that raises on every call deduplicate_results
\* returns the list the title-similarity heuristic yields, and that list is
\* not empty unless the input is.
C18_RaisingComparatorFallsBack ==
    (dd.phase \in {"once", "twice"} /\ dd.llm.raises) =>
        /\ dd.once = deduplicate_results(TitleHeuristic(dd.results), dd.results)
        /\ dd.results # <<>> => dd.once # <<>>

C18_Witness ==
    /\ dd.phase = "once"
    /\ dd.llm.raises
    /\ Len(dd.results) = MaxDocs
    /\ Len(dd.once) = 2

\* Results compared with the results of the input list: the pool, a result
\* published outside the window and a title of common words only.
SimilarityProbes ==
    ResultPool
    \cup {[title |-> <<"acme", "ceo">>, published_on |-> WindowHours + 1],
          [title |-> <<"the", "a">>, published_on |-> 0]}

\* C23: are_potentially_similar(a, b) equals are_potentially_similar(b, a)
\* for every pair of results a and b.
C23_SimilaritySymmetric ==
    dd.phase \in {"once", "twice"} =>
        \A a \in Range(dd.results) : \A b \in SimilarityProbes :
            are_potentially_similar(a, b) = are_potentially_similar(b, a)

C23_Witness ==
    /\ dd.phase = "once"
    /\ \E a, b \in Range(dd.results) :
          /\ a.title # b.title
          /\ a.published_on < b.published_on
          /\ are_potentially_similar(a, b)
          /\ are_potentially_similar(b, a)
    /\ \E a \in Range(dd.results) : \E b \in SimilarityProbes :
          /\ Abs(a.published_on - b.published_on) > WindowHours
          /\ ~are_potentially_similar(a, b)
          /\ ~are_potentially_similar(b, a)

\* The cluster a result has to join when the earliest matching cluster
\* wins: the least cluster id with a similar result among its first
\* ClusterProbe members, -1 when no cluster matches.
first_matching_cluster(clusters, result) ==
    LET hits == {cid \in 0..(Len(clusters) - 1) :
                    \E k \in 1..Min(Len(clusters[cid + 1]), ClusterProbe) :
                        are_potentially_similar(result, clusters[cid + 1][k])}
    IN  IF hits = {} THEN -1
        ELSE CHOOSE cid \in hits : \A other \in hits : cid <= other

\* C24: in the clustering pass every result joins the earliest-created
\* cluster that has one of its first three members similar to it, the very
\* first cluster included, and opens a new cluster only when none matches.
C24_FirstMatchingClusterWins ==
    dd.phase \in {"once", "twice"} =>
        \A i \in 1..Len(dd.results) :
            LET clusters == create_similarity_clusters(SubSeq(dd.results, 1, i - 1), 1, <<>>)
            IN  scan_clusters(clusters, dd.results[i], 0, -1)
                    = first_matching_cluster(clusters, dd.results[i])

\* C29: after the resolution pass over a cluster every pair of surviving
\* results was compared and judged not duplicate, and no call of the
\* comparator involves a result that was already eliminated.
C29_SurvivorsPairwiseCompared ==
    dd.phase \in {"once", "twice"} =>
        LET clusters == create_similarity_clusters(dd.results, 1, <<>>)
        IN  \A c \in 1..Len(clusters) :
               LET rs    == clusters[c]
                   pass  == direct_calls(dd.llm, rs, 1, 2, {}, {})
                   alive == (1..Len(rs)) \ pass.duplicate_indices
               IN  /\ pass.duplicate_indices = direct_loop(dd.llm, rs, 1, 2, {})
                   /\ \A call \in pass.calls :
                          call[1] \notin call[3] /\ call[2] \notin call[3]
                   /\ \A i, j \in alive :
                          i < j => /\ \E call \in pass.calls :
                                        call[1] = i /\ call[2] = j
                                   /\ ~compare_results(dd.llm, rs[i], rs[j])

C29_Witness ==
    /\ dd.phase = "once"
    /\ ~dd.llm.raises
    /\ LET clusters == create_similarity_clusters(dd.results, 1, <<>>)
       IN  /\ Len(clusters) = 1
           /\ Len(clusters[1]) = 3
           /\ direct_calls(dd.llm, clusters[1], 1, 2, {}, {}).duplicate_indices = {3}
           /\ Len(dd.once) = 2

(***************************************************************************)
(* Properties of the workflow                                              *)
(***************************************************************************)
NoRepeats(s) == \A i, j \in 1..Len(s) : i # j => s[i] # s[j]

\* C2: the companies for which the fetch stage has executed form a prefix of
\* the company list, and the fetch stage has run at most once more than the
\* store stage (position k+1 is fetched only after position k was stored).
C2_FetchInListOrder ==
    /\ IsPrefix(fetch_log, state.companies)
    /\ IsPrefix(store_log, fetch_log)
    /\ Len(fetch_log) <= Len(store_log) + 1

\* C3: the planner -> fetch -> analyze -> store cycle runs at most once per
\* position of the company list, and a run that has reached the end of the
\* workflow has status complete or error.
C3_CycleBoundedByList ==
    /\ Len(fetch_log) <= Len(state.companies)
    /\ node = "END" => state.status \in {"complete", "error"}

\* C4: the fetch stage in which the aggregator raises appends exactly one
\* error naming the current company, sets status error and hands over to the
\* error handler; from then on the only step is the error handler, which ends
\* the run with status error, and no further fetch happens and the extracted
\* signals and the errors are kept.
C4_FetchFailureEndsRun ==
    [][/\ ("aggregator" \notin failures /\ "aggregator" \in failures') =>
            /\ state'.errors = Append(state.errors, <<"fetch", state.current_company>>)
            /\ state'.status = "error"
            /\ node' = "error_handler"
            /\ state'.extracted_signals = state.extracted_signals
            /\ state'.fetched_articles = state.fetched_articles
       /\ "aggregator" \in failures =>
            /\ node = "error_handler"
            /\ node' = "END"
            /\ handler_ran'
            /\ state'.status = "error"
            /\ state'.errors = state.errors
            /\ state'.extracted_signals = state.extracted_signals
            /\ fetch_log' = fetch_log]_vars

C4_Witness ==
    /\ node = "END"
    /\ "aggregator" \in failures
    /\ handler_ran
    /\ state.status = "error"
    /\ Len(fetch_log) = 2
    /\ fetch_log[1] # fetch_log[2]
    /\ state.errors[Len(state.errors)] = <<"fetch", fetch_log[2]>>
    /\ Len(state.errors) > 1
    /\ fetch_log[1] \in DOMAIN state.fetched_articles

\* C5: every step only appends to errors and to extracted_signals, never
\* decreases total_articles or total_signals, and leaves the fetched
\* documents of every company that already has an entry as they were.
C5_StagesOnlyAppend ==
    [][/\ IsPrefix(state.errors, state'.errors)
       /\ IsPrefix(state.extracted_signals, state'.extracted_signals)
       /\ state'.total_articles >= state.total_articles
       /\ state'.total_signals >= state.total_signals
       /\ \A c \in DOMAIN state.fetched_articles :
             /\ c \in DOMAIN state'.fetched_articles
             /\ state'.fetched_articles[c] = state.fetched_articles[c]]_vars

\* C6: a run that has ended after an adapter, classifier, save or narrative
\* failure has a non-empty error list.
C6_FailuresAreSurfaced ==
    (node = "END" /\ failures \cap {"adapter", "classifier", "save", "narrative"} # {})
        => state.errors # <<>>

C8_StoredSavedOnce ==
    /\ \A c \in save_calls : ~c.stored
    /\ NoRepeats(db_rows)

C8_Witness ==
    /\ Len(store_log) = 2
    /\ store_log[1] = store_log[2]
    /\ db_rows # <<>>
    /\ \E i \in 1..Len(state.extracted_signals) :
          /\ state.extracted_signals[i].stored
          /\ state.extracted_signals[i].company_name = store_log[2]

\* C9: the analyze stage calls the extractor for every article of the
\* company up to the cap whichever calls fail, appends one error naming the
\* company per failed call, keeps the signals and errors it started with,
\* and ends with status storing.
C9_AnalyzeIsolatesFailures ==
    [][node = "signal_analyzer" =>
         /\ last_analysis'.calls = Min(Len(articles_of(state)), ArticleCap)
         /\ Len(state'.errors) = Len(state.errors) + last_analysis'.failed
         /\ IsPrefix(state.errors, state'.errors)
         /\ \A i \in (Len(state.errors) + 1)..Len(state'.errors) :
               state'.errors[i] = <<"article", state.current_company>>
         /\ IsPrefix(state.extracted_signals, state'.extracted_signals)
         /\ state'.status = "storing"
         /\ node' = "data_storage"]_vars

C9_Witness ==
    /\ node = "data_storage"
    /\ last_analysis.failed >= 2
    /\ last_analysis.articles > ArticleCap
    /\ last_analysis.calls = ArticleCap
    /\ state.status = "storing"
    /\ Len(state.errors) > last_analysis.failed

C11_AllSucceedComplete ==
    (/\ node = "END"
     /\ NoRepeats(state.companies)
     /\ failures \cap {"adapter", "aggregator", "classifier", "save", "narrative"} = {})
        => /\ state.status = "complete"
           /\ state.errors = <<>>
           /\ state.results.kind = "summary"

\* The Result behind an article of the workflow: articles with different
\* title keys have different titles.
TitleOf ==
    <<<<"acme", "ceo">>, <<"the", "ceo", "quits">>, <<"quits", "today">>,
      <<"t4">>, <<"t5">>, <<"t6">>, <<"t7">>, <<"t8">>, <<"t9">>, <<"t10">>,
      <<"t11">>>>

article_result(k) == [title |-> TitleOf[k], published_on |-> 0]

\* Comparators for the documents of one company: one that raises on every
\* call and one that judges every pair duplicate.
ArticleComparators(docs) ==
    {[raises |-> TRUE, confidence |-> 0,
      is_duplicate |-> [p \in PairsOf(docs) |-> FALSE]],
     [raises |-> FALSE, confidence |-> ConfidenceCut,
      is_duplicate |-> [p \in PairsOf(docs) |-> TRUE]]}

\* C12: the documents on which the analyze stage calls the extractor are
\* among the documents deduplicate_results keeps of the current company's
\* fetched documents, whatever the comparator answers.
C12_ExtractOnlyDeduplicated ==
    [][node = "signal_analyzer" =>
         LET docs   == [i \in 1..Len(articles_of(state)) |->
                           article_result(articles_of(state)[i])]
             called == SubSeq(docs, 1, last_analysis'.calls)
         IN  \A llm \in ArticleComparators(docs) :
                Range(called) \subseteq Range(deduplicate_results(llm, docs))]_vars

\* C13: total_articles is the number of documents the source adapters
\* returned to the fetch stages that succeeded (the count before the
\* aggregator removes repeated titles).
C13_TotalIsRawCount ==
    state.total_articles = raw_articles

\* C14: a run that has ended after the narrative generator raised has
\* status complete and a results object with the placeholder text, the
\* counts and the error list.
C14_NarrativeFailureIsComplete ==
    (node = "END" /\ "narrative" \in failures)
        => /\ state.status = "complete"
           /\ state.results.kind = "summary"
           /\ state.results.ai_insights = "Unable to generate AI insights"
           /\ state.results.total_signals = state.total_signals
           /\ state.results.errors = state.errors

C14_Witness ==
    /\ node = "END"
    /\ "narrative" \in failures
    /\ state.status = "complete"
    /\ state.results.kind = "summary"
    /\ state.results.ai_insights = "Unable to generate AI insights"
    /\ state.results.total_articles > 0
    /\ state.results.errors # <<>>
    /\ Len(state.companies) > 1

\* C22: a fetch stage in which a source adapter fails internally (the
\* Google adapter or the SEC adapter) still stores the documents of the
\* company, appends no error and goes on to the analyze stage.
C22_AdapterFailureNotFatal ==
    [][(/\ node = "news_fetcher"
        /\ failures' # failures
        /\ (failures' \ failures) \subseteq {"adapter", "aggregator"})
          => /\ state'.status = "analyzing"
             /\ state.current_company \in DOMAIN state'.fetched_articles
             /\ state'.errors = state.errors
             /\ node' = "signal_analyzer"]_vars

C26_SummarizeOnceAtEnd ==
    [][/\ node = "summarizer"
            => /\ store_log # <<>>
               /\ store_log[Len(store_log)] = state.companies[Len(state.companies)]
               /\ state.status # "error"
               /\ state.results.kind = "none"
               /\ node' = "END"
       /\ node # "END"
       /\ (state'.status = "complete" /\ state.status # "complete")
            => /\ node = "summarizer"
               /\ state'.results.kind = "summary"]_vars

C26_Witness ==
    /\ node = "END"
    /\ state.status = "complete"
    /\ state.results.kind = "summary"
    /\ Len(state.companies) = 2
    /\ store_log = state.companies
    /\ state.results.total_companies = 2

StatusEdges ==
    {<<"pending", "fetching">>, <<"fetching", "analyzing">>,
     <<"analyzing", "storing">>, <<"storing", "fetching">>,
     <<"storing", "complete">>}
    \cup {<<s, "error">> : s \in {"pending", "fetching", "analyzing", "storing"}}

\* C27: the status changes only along pending -> fetching, fetching ->
\* analyzing, analyzing -> storing, storing -> fetching, storing -> complete
\* and non-terminal -> error; once the status is complete or error no
\* fetch, analyze or store stage runs and the status keeps its value.
C27_StatusEdges ==
    [][/\ state'.status # state.status
            => <<state.status, state'.status>> \in StatusEdges
       /\ state.status \in {"complete", "error"}
            => /\ state'.status = state.status
               /\ fetch_log' = fetch_log
               /\ store_log' = store_log
               /\ last_analysis' = last_analysis]_vars

\* The sum of the values of a function with a finite domain.
RECURSIVE SumOver(_)
SumOver(f) ==
    IF DOMAIN f = {} THEN 0
    ELSE LET k == CHOOSE x \in DOMAIN f : TRUE
         IN  f[k] + SumOver([x \in DOMAIN f \ {k} |-> f[x]])

MaxToolArticles == 2

ToolCallArgs == 2

DemoCallArgs == 3

Thresholds == {"low", "medium", "high"}

\* confidence_levels.get(value, default)
confidence_levels(c, default) ==
    CASE c = "low" -> 0 [] c = "medium" -> 1 [] c = "high" -> 2 [] OTHER -> default

analyze_article_for_signals(cls, confidence_threshold) ==
    LET signal == extract(ToolCallArgs, cls)
    IN  IF signal.kind \in {"TypeError", "Raised"}
        THEN [success |-> FALSE, signal_found |-> FALSE]
        ELSE IF signal.kind = "None"
        THEN [success |-> TRUE, signal_found |-> FALSE]
        ELSE IF confidence_levels(signal.confidence, 0)
                  < confidence_levels(confidence_threshold, 1)
        THEN [success |-> TRUE, signal_found |-> FALSE]
        ELSE [success |-> TRUE, signal_found |-> TRUE]

\* The loop of batch_analyze_articles; acc holds signals_found and the
\* counters of processing_stats.
RECURSIVE batch_loop(_, _, _, _)
batch_loop(acc, articles, confidence_threshold, i) ==
    IF i > Len(articles) THEN acc
    ELSE LET signal == extract(ToolCallArgs, articles[i])
             next ==
                 IF signal.kind \in {"TypeError", "Raised"}
                 THEN [acc EXCEPT !.errors = @ + 1]
                 ELSE IF signal.kind = "Signal"
                         /\ confidence_levels(signal.confidence, 0)
                               >= confidence_levels(confidence_threshold, 1)
                 THEN [acc EXCEPT !.articles_processed = @ + 1,
                                  !.signals = Append(@, i),
                                  !.signals_extracted = @ + 1]
                 ELSE [acc EXCEPT !.articles_processed = @ + 1]
         IN  batch_loop(next, articles, confidence_threshold, i + 1)

batch_analyze_articles(articles, confidence_threshold) ==
    batch_loop([signals |-> <<>>, articles_processed |-> 0,
                signals_extracted |-> 0, errors |-> 0],
               articles, confidence_threshold, 1)

\* The article loop of run_demo: what extract returned per article and the
\* records handed to save_signal.
RECURSIVE demo_loop(_, _, _)
demo_loop(acc, articles, i) ==
    IF i > Len(articles) THEN acc
    ELSE LET signal == extract(DemoCallArgs, articles[i])
             seen   == [acc EXCEPT !.returned = Append(@, signal)]
         IN  IF signal.kind = "Signal"
             THEN demo_loop([seen EXCEPT !.saved = Append(@,
                                [signal_type |-> signal.type, impact |-> signal.impact,
                                 confidence |-> signal.confidence])],
                            articles, i + 1)
             ELSE demo_loop(seen, articles, i + 1)

run_demo(articles) == demo_loop([returned |-> <<>>, saved |-> <<>>], articles, 1)

ToolArticles == SeqsUpTo(ClassifierOutcomes, MaxToolArticles) \ {<<>>}

ToolInit ==
    /\ \E articles \in ToolArticles, t \in Thresholds :
          tool = [phase |-> "input", articles |-> articles, threshold |-> t]
    /\ state = initial_state(<<>>)
    /\ node = "idle"
    /\ fetch_log = <<>>
    /\ store_log = <<>>
    /\ db_rows = <<>>
    /\ save_calls = {}
    /\ handler_ran = FALSE
    /\ failures = {}
    /\ last_analysis = NoAnalysis
    /\ dd = DedupIdle
    /\ raw_articles = 0
    /\ api = ApiIdle

AnalyzeArticle ==
    /\ tool.phase = "input"
    /\ Len(tool.articles) = 1
    /\ tool' = [phase |-> "article", articles |-> tool.articles,
                threshold |-> tool.threshold,
                out |-> analyze_article_for_signals(tool.articles[1], tool.threshold)]
    /\ UNCHANGED <<state, node, obs, dd, raw_articles, api>>

BatchAnalyze ==
    /\ tool.phase = "input"
    /\ tool' = [phase |-> "batch", articles |-> tool.articles,
                threshold |-> tool.threshold,
                out |-> batch_analyze_articles(tool.articles, tool.threshold)]
    /\ UNCHANGED <<state, node, obs, dd, raw_articles, api>>

RunDemo ==
    /\ tool.phase = "input"
    /\ tool' = [phase |-> "demo", articles |-> tool.articles,
                threshold |-> tool.threshold,
                out |-> run_demo(tool.articles)]
    /\ UNCHANGED <<state, node, obs, dd, raw_articles, api>>

ToolNext == AnalyzeArticle \/ BatchAnalyze \/ RunDemo

ToolSpec == ToolInit /\ [][ToolNext]_vars

IsSignal(cls) == ~cls.raised /\ cls.type # "none"

Passes(cls, t) ==
    confidence_levels(cls.confidence, 0) >= confidence_levels(t, 1)

\* C19: the single-article tool reports a signal as found exactly when the
\* classifier returned a signal whose confidence is at least the threshold,
\* and the batch tool returns exactly the articles with such a signal.
C19_ThresholdFilter ==
    /\ tool.phase = "article" =>
          (tool.out.signal_found
              <=> (IsSignal(tool.articles[1]) /\ Passes(tool.articles[1], tool.threshold)))
    /\ tool.phase = "batch" =>
          Range(tool.out.signals) =
              {i \in 1..Len(tool.articles) :
                  IsSignal(tool.articles[i]) /\ Passes(tool.articles[i], tool.threshold)}

\* C20: a call of extract that binds its parameters returns no signal when
\* the classifier raises and when it returns the type none, and returns the
\* classifier's signal otherwise; no record of type none is handed to
\* save_signal or held in extracted_signals.
C20_NoneIsNeverKept ==
    /\ tool.phase = "demo" =>
          /\ Len(tool.out.returned) = Len(tool.articles)
          /\ \A i \in 1..Len(tool.articles) :
                IF IsSignal(tool.articles[i])
                THEN tool.out.returned[i].kind = "Signal"
                ELSE tool.out.returned[i] = NoSignal
          /\ Len(tool.out.saved) =
                Cardinality({i \in 1..Len(tool.articles) : IsSignal(tool.articles[i])})
          /\ \A k \in 1..Len(tool.out.saved) : tool.out.saved[k].signal_type # "none"
    /\ \A i \in 1..Len(state.extracted_signals) :
          state.extracted_signals[i].type # "none"

C20_Witness ==
    /\ tool.phase = "demo"
    /\ Len(tool.articles) = 2
    /\ tool.articles[1].raised
    /\ ~tool.articles[2].raised /\ tool.articles[2].type = "none"
    /\ tool.out.returned = <<NoSignal, NoSignal>>
    /\ tool.out.saved = <<>>

(***************************************************************************)
(* The job API (api/news.py): the module-level dict job_status, the        *)
(* handlers create_job, get_job and delete_job, and the background task    *)
(* fetch_news_task.  Every handler and the task are coroutines without an  *)
(* await in their bodies, so each runs on the event loop without another   *)
(* one running in between; the order in which they run is free.            *)
(***************************************************************************)
MaxJobs == 2

JobIds == 1..MaxJobs

\* What a job meets: every call succeeds, the aggregator raises for the
\* last company, or OPENAI_API_KEY is not set.
JobOutcomes == {"ok", "fetch_raises", "no_api_key"}

JobInputs ==
    {[company_names |-> c, outcome |-> o] :
        c \in {<<"Acme">>, <<"Acme", "Beta">>}, o \in JobOutcomes}

NoJobResults == [kind |-> "none"]

pending_entry(job_id) ==
    [job_id |-> job_id, status |-> "pending", results |-> NoJobResults, error |-> FALSE]

\* company_results after the loop over company_names.  extract_with_metadata
\* calls extract with two arguments, so no article yields a signal.
company_results(input) ==
    [c \in Range(input.company_names) |->
        IF input.outcome = "fetch_raises"
           /\ c = input.company_names[Len(input.company_names)]
        THEN [article_count |-> 0, signal_count |-> 0, error |-> TRUE]
        ELSE [article_count |-> 2, signal_count |-> 0, error |-> FALSE]]

\* Variant: the task updates every entry of the store.
fetch_news_task_shared(job_id, input, job_status) ==
    [job_status |->
         [i \in DOMAIN job_status |->
             [job_status[i] EXCEPT
                 !.status = "completed",
                 !.results = [kind |-> "results", companies |-> company_results(input),
                              summary |-> "None"]]],
     ended   |-> "returned",
     touched |-> DOMAIN job_status]

\* The task on the store job_status.  A missing key (os.environ or
\* job_status[job_id]) raises KeyError into the outer except, whose own
\* job_status[job_id] raises again when the entry is missing.
fetch_news_task(job_id, input, job_status) ==
    IF input.outcome # "no_api_key" /\ job_id \in DOMAIN job_status
    THEN [job_status |->
              [job_status EXCEPT ![job_id] =
                  [@ EXCEPT !.status = "completed",
                            !.results = [kind |-> "results",
                                         companies |-> company_results(input),
                                         summary |-> "None"]]],
          ended   |-> "returned",
          touched |-> {job_id}]
    ELSE IF job_id \in DOMAIN job_status
    THEN [job_status |->
              [job_status EXCEPT ![job_id] =
                  [@ EXCEPT !.status = "failed", !.error = TRUE]],
          ended   |-> "returned",
          touched |-> {job_id}]
    ELSE [job_status |-> job_status, ended |-> "raised", touched |-> {job_id}]

NoGet == [job_id |-> 0, found |-> FALSE, after_delete |-> FALSE]

JobInit ==
    /\ api = [phase |-> "jobs", job_status |-> <<>>, input |-> <<>>, queued |-> {},
              ended |-> <<>>, touched |-> <<>>, deleted |-> {}, max_queued |-> 0,
              last_get |-> NoGet]
    /\ state = initial_state(<<>>)
    /\ node = "idle"
    /\ fetch_log = <<>>
    /\ store_log = <<>>
    /\ db_rows = <<>>
    /\ save_calls = {}
    /\ handler_ran = FALSE
    /\ failures = {}
    /\ last_analysis = NoAnalysis
    /\ dd = DedupIdle
    /\ raw_articles = 0
    /\ tool = ToolIdle

With(f, k, v) == [i \in DOMAIN f \cup {k} |-> IF i = k THEN v ELSE f[i]]

Without(f, k) == [i \in DOMAIN f \ {k} |-> f[i]]

\* create_job: a fresh uuid, the pending entry, and the task handed to
\* BackgroundTasks.
CreateJob ==
    /\ api.phase = "jobs"
    /\ \E job_id \in JobIds \ DOMAIN api.input, input \in JobInputs :
          api' = [api EXCEPT
                     !.job_status = With(@, job_id, pending_entry(job_id)),
                     !.input = With(@, job_id, input),
                     !.queued = @ \cup {job_id},
                     !.max_queued = IF Cardinality(api.queued) + 1 > @
                                    THEN Cardinality(api.queued) + 1 ELSE @]
    /\ UNCHANGED <<state, node, obs, dd, raw_articles, tool>>

FetchNewsTask ==
    /\ api.phase = "jobs"
    /\ \E job_id \in api.queued :
          LET run == fetch_news_task(job_id, api.input[job_id], api.job_status)
          IN  api' = [api EXCEPT
                         !.job_status = run.job_status,
                         !.queued = @ \ {job_id},
                         !.ended = With(@, job_id, run.ended),
                         !.touched = With(@, job_id, run.touched)]
    /\ UNCHANGED <<state, node, obs, dd, raw_articles, tool>>

GetJob ==
    /\ api.phase = "jobs"
    /\ \E job_id \in DOMAIN api.input :
          api' = [api EXCEPT
                     !.last_get = [job_id |-> job_id,
                                   found |-> job_id \in DOMAIN api.job_status,
                                   after_delete |-> job_id \in api.deleted]]
    /\ UNCHANGED <<state, node, obs, dd, raw_articles, tool>>

\* delete_job answers 404 for a missing entry and changes nothing.
DeleteJob ==
    /\ api.phase = "jobs"
    /\ \E job_id \in DOMAIN api.job_status :
          api' = [api EXCEPT !.job_status = Without(@, job_id),
                             !.deleted = @ \cup {job_id}]
    /\ UNCHANGED <<state, node, obs, dd, raw_articles, tool>>

JobNext == CreateJob \/ FetchNewsTask \/ GetJob \/ DeleteJob

JobSpec == JobInit /\ [][JobNext]_vars

\* The entry of a job that ran with no other job in the store.
alone(job_id, input) ==
    fetch_news_task(job_id, input, With(<<>>, job_id, pending_entry(job_id))).job_status[job_id]

\* C21: a task reads and writes the entry of its own id only, and the
\* entry of a finished job that was not deleted is the entry the job leaves
\* when it runs alone.
C21_JobsIsolated ==
    api.phase = "jobs" =>
        \A job_id \in DOMAIN api.ended :
            /\ api.touched[job_id] = {job_id}
            /\ job_id \in DOMAIN api.job_status =>
                   api.job_status[job_id] = alone(job_id, api.input[job_id])

C21_Witness ==
    /\ api.phase = "jobs"
    /\ api.max_queued = 2
    /\ api.deleted = {}
    /\ \E a, b \in DOMAIN api.ended :
          /\ a # b
          /\ api.job_status[a].status = "completed"
          /\ api.job_status[b].status = "failed"
          /\ api.input[a].company_names # api.input[b].company_names

\* C30: a task whose job was deleted returns without raising, a deleted
\* job has no entry, and get_job after the delete answers not found.
C30_DeleteDuringTask ==
    api.phase = "jobs" =>
        /\ \A job_id \in api.deleted :
              /\ job_id \notin DOMAIN api.job_status
              /\ job_id \in DOMAIN api.ended => api.ended[job_id] = "returned"
        /\ api.last_get.after_delete => ~api.last_get.found

====
